---------------------------- MODULE Spec2Model ----------------------------
(***************************************************************************)
(* A model of ipwraplib.py: wrappers around iwconfig, "ip route show",     *)
(* dig and /proc/net/arp, and the CIDR arithmetic of mask_ip.              *)
(*                                                                         *)
(* Text is modelled as Python 2 str values: a string is a sequence of     *)
(* one-character strings, so that str.split, re.search, int() and bin()    *)
(* are computed character by character.  Python's None is the empty       *)
(* tuple and a present value v is <<v>>.  An arbitrary-precision int that  *)
(* may exceed 31 bits is a sequence of bits, least significant first.      *)
(***************************************************************************)
EXTENDS Integers, Sequences, FiniteSets

VARIABLES pc, cmd, status, output, i, interface, ssid, mac, ip, table,
          header, arg, result

vars == <<pc, cmd, status, output, i, interface, ssid, mac, ip, table,
          header, arg, result>>

(***************************************************************************)
(* Bounds of the model.                                                    *)
(***************************************************************************)
\* The largest number of lines in a command's output or in the ARP file.
MaxLines == 3

(***************************************************************************)
(* Python values.                                                          *)
(***************************************************************************)
None == <<>>

Some(v) == <<v>>

\* The truth value Python gives an optional string: None and "" are false.
Truthy(v) == v # None /\ v[1] # <<>>

DQ == "\""

NL == "\n"

\* The characters str.isspace() and the regex class \s accept (the vertical
\* tab has no TLA+ escape and is in no input of the model).
Whitespace == {" ", "\t", "\n", "\r", "\f"}

IsSpace(c) == c \in Whitespace

UpperLetters == <<"A", "B", "C", "D", "E", "F", "G", "H", "I", "J", "K", "L", "M",
                  "N", "O", "P", "Q", "R", "S", "T", "U", "V", "W", "X", "Y", "Z">>

LowerLetters == <<"a", "b", "c", "d", "e", "f", "g", "h", "i", "j", "k", "l", "m",
                  "n", "o", "p", "q", "r", "s", "t", "u", "v", "w", "x", "y", "z">>

LowerOf ==
  [c \in {UpperLetters[k] : k \in DOMAIN UpperLetters} |->
     LowerLetters[CHOOSE k \in DOMAIN UpperLetters : UpperLetters[k] = c]]

UpperOf ==
  [c \in {LowerLetters[k] : k \in DOMAIN LowerLetters} |->
     UpperLetters[CHOOSE k \in DOMAIN LowerLetters : LowerLetters[k] = c]]

Lower(c) == IF c \in DOMAIN LowerOf THEN LowerOf[c] ELSE c

Upper(c) == IF c \in DOMAIN UpperOf THEN UpperOf[c] ELSE c

\* str.upper()
StrUpper(s) == [k \in DOMAIN s |-> Upper(s[k])]

\* The characters of a string literal, as a sequence.
Chars(s) == [k \in 1..Len(s) |-> SubSeq(s, k, k)]

\* s[a:] for a 1-based first index a
From(s, a) == SubSeq(s, a, Len(s))

\* The first index at or after a where s holds a character of S, or 0.
FirstIn(s, a, S) ==
  LET hits == {k \in a..Len(s) : s[k] \in S}
  IN  IF hits = {} THEN 0 ELSE CHOOSE k \in hits : \A m \in hits : k <= m

\* str.splitlines(): the lines of a text, their terminators removed.  A line
\* ends at "\n", at "\r" or at "\r\n"; a final terminator opens no new line.
RECURSIVE SplitLinesFrom(_, _)
SplitLinesFrom(s, a) ==
  LET k == FirstIn(s, a, {"\n", "\r"})
  IN  IF a > Len(s) THEN <<>>
      ELSE IF k = 0 THEN <<From(s, a)>>
      ELSE <<SubSeq(s, a, k - 1)>>
           \o SplitLinesFrom(s, IF s[k] = "\r" /\ k < Len(s) /\ s[k + 1] = "\n"
                                THEN k + 2 ELSE k + 1)

splitlines(s) == SplitLinesFrom(s, 1)

\* str.split(): the maximal runs of non-whitespace characters, in order.
RECURSIVE SplitFrom(_, _)
SplitFrom(s, a) ==
  LET b == FirstIn(s, a, {s[k] : k \in DOMAIN s} \ Whitespace)
      e == IF b = 0 THEN 0 ELSE FirstIn(s, b, Whitespace)
  IN  IF b = 0 THEN <<>>
      ELSE IF e = 0 THEN <<From(s, b)>>
      ELSE <<SubSeq(s, b, e - 1)>> \o SplitFrom(s, e)

split(s) == SplitFrom(s, 1)

\* str.rstrip('\r\n')
RECURSIVE rstrip_crlf(_)
rstrip_crlf(s) ==
  IF s # <<>> /\ s[Len(s)] \in {"\r", "\n"}
  THEN rstrip_crlf(SubSeq(s, 1, Len(s) - 1))
  ELSE s

\* str.strip()
RECURSIVE strip(_)
strip(s) ==
  IF s # <<>> /\ IsSpace(s[1]) THEN strip(Tail(s))
  ELSE IF s # <<>> /\ IsSpace(s[Len(s)]) THEN strip(SubSeq(s, 1, Len(s) - 1))
  ELSE s

\* The text whose lines are ls, each ended by "\n".
RECURSIVE JoinLines(_)
JoinLines(ls) ==
  IF ls = <<>> THEN <<>> ELSE ls[1] \o <<NL>> \o JoinLines(Tail(ls))

\* All sequences over S of length at most n.
SeqsUpTo(S, n) == UNION {[1..k -> S] : k \in 0..n}

(***************************************************************************)
(* Running an external command: the executable is looked up on $PATH and   *)
(* replaced by a fixed absolute path when the lookup fails; check_output   *)
(* raises OSError when the program cannot be spawned and                   *)
(* CalledProcessError when it exits with a non-zero status.                *)
(***************************************************************************)
Envs == [hasPath : BOOLEAN, onPath : BOOLEAN, absExists : BOOLEAN,
         spawnError : BOOLEAN, exitStatus : {0, 1}]

\* if 'PATH' not in os.environ or not find_executable(cmd): cmd = absolute
ResolveCmd(env) ==
  IF ~env.hasPath \/ ~env.onPath THEN "absolute" ELSE "name"

\* subprocess.check_output([cmd, ...], stderr=devnull)
check_output(env) ==
  IF ResolveCmd(env) = "absolute" /\ ~env.absExists THEN "OSError"
  ELSE IF env.spawnError THEN "OSError"
  ELSE IF env.exitStatus # 0 THEN "CalledProcessError"
  ELSE "ok"

\* A variant of the except clause that forgets CalledProcessError.
Caught_onlyOSError == {"OSError"}

\* except (OSError, subprocess.CalledProcessError):
Caught == {"OSError", "CalledProcessError"}

\* Where control goes after the try statement around check_output.
AfterTry(outcome, scan, done) ==
  IF outcome = "ok" THEN scan
  ELSE IF outcome \in Caught THEN done
  ELSE "raised"

(***************************************************************************)
(* get_wifi_info                                                           *)
(***************************************************************************)
\* re.search(r'^(\S+)\s+\S', line): group 1, or None
IfaceMatch(line) ==
  LET n == Len(line)
      spaces == {k \in 1..n : IsSpace(line[k])}
      t == IF spaces = {} THEN n
           ELSE (CHOOSE k \in spaces : \A m \in spaces : k <= m) - 1
  IN  IF t >= 1 /\ t < n /\ \E k \in (t + 2)..n : ~IsSpace(line[k])
      THEN Some(SubSeq(line, 1, t))
      ELSE None

AccessPointLabel ==
  Chars("access point: ")

HexColon == {"0", "1", "2", "3", "4", "5", "6", "7", "8", "9", ":",
             "a", "b", "c", "d", "e", "f", "A", "B", "C", "D", "E", "F"}

\* The length of the longest prefix of s made of characters of S.
PrefixLenIn(s, S) ==
  LET bad == {k \in 1..Len(s) : s[k] \notin S}
  IN  IF bad = {} THEN Len(s)
      ELSE (CHOOSE k \in bad : \A m \in bad : k <= m) - 1

\* re.search(r'^.*access point: ([a-fA-F0-9:]+)\s*$', line, re.I): group 1,
\* or None.  The greedy ".*" takes the last position where the rest matches.
MacMatch(line) ==
  LET n == Len(line)
      w == Len(AccessPointLabel)
      Fits(a) ==
        /\ \A k \in 1..w : Lower(line[a + k - 1]) = AccessPointLabel[k]
        /\ LET rest == From(line, a + w)
               h == PrefixLenIn(rest, HexColon)
           IN  h >= 1 /\ \A k \in (h + 1)..Len(rest) : IsSpace(rest[k])
      starts == {a \in 1..(n - w) : Fits(a)}
  IN  IF starts = {} THEN None
      ELSE LET a == CHOOSE x \in starts : \A y \in starts : y <= x
               rest == From(line, a + w)
           IN  Some(SubSeq(rest, 1, PrefixLenIn(rest, HexColon)))

SsidLabel == Chars("SSID:\"")

\* re.search(r'^.*SSID:"(.*)"\s*$', line): group 1, or None.  The closing
\* quote is the last quote of the line, only whitespace may follow it, and the
\* greedy ".*" takes the last SSID:" that opens before it.
SsidMatch(line) ==
  LET n == Len(line)
      w == Len(SsidLabel)
      quotes == {k \in 1..n : line[k] = DQ}
      q == IF quotes = {} THEN 0
           ELSE CHOOSE k \in quotes : \A m \in quotes : m <= k
      starts == {a \in 1..(q - w) : SubSeq(line, a, a + w - 1) = SsidLabel}
  IN  IF q = 0 \/ starts = {} \/ \E k \in (q + 1)..n : ~IsSpace(line[k])
      THEN None
      ELSE LET a == CHOOSE x \in starts : \A y \in starts : y <= x
           IN  Some(SubSeq(line, a + w, q - 1))

\* One pass of the loop body over a line: the new (interface, ssid, mac).
WifiScanLine(st, line) ==
  LET m1 == IfaceMatch(line)
      m2 == MacMatch(line)
      m3 == SsidMatch(line)
  IN  [interface |-> IF m1 # None THEN m1 ELSE st.interface,
       mac |-> IF ~Truthy(st.mac) /\ m2 # None THEN m2 ELSE st.mac,
       ssid |-> IF ~Truthy(st.ssid) /\ m3 # None THEN m3 ELSE st.ssid]

\* A variant of the break test that uses truth values, as lines 41 and 45 do.
WifiBreak_truthy(st) == Truthy(st.ssid) /\ Truthy(st.mac)

\* if ssid is not None and mac is not None: break
WifiBreak(st) == st.ssid # None /\ st.mac # None

WifiLines ==
  { Chars("lo  no wifi"),
    Chars("wlan0  ESSID:\"home\""),
    Chars("  Access Point: AA:BB:CC:DD:EE:FF  "),
    Chars("wlan1  ESSID:\"\""),
    Chars("wlan2  ESSID:off/any"),
    Chars("  Access Point: Not-Associated"),
    Chars("ACCESS POINT: 0a:1b"),
    Chars("  SSID:\"a\"b\" ") }

WifiOutputs == {JoinLines(ls) : ls \in SeqsUpTo(WifiLines, MaxLines)}

Init ==
  /\ pc = "idle"
  /\ cmd = None
  /\ status = None
  /\ output = <<>>
  /\ i = 0
  /\ interface = None
  /\ ssid = None
  /\ mac = None
  /\ ip = None
  /\ table = <<>>
  /\ header = TRUE
  /\ arg = None
  /\ result = None

\* Lines 17-35: the locals are set, iwconfig is located and run.
WifiCall ==
  /\ pc = "idle"
  /\ arg = None
  /\ \E env \in Envs :
       /\ cmd' = Some(ResolveCmd(env))
       /\ status' = Some(check_output(env))
       /\ pc' = AfterTry(check_output(env), "wifi_scan", "wifi_done")
       /\ IF check_output(env) = "ok"
          THEN /\ output' \in WifiOutputs
               /\ result' = None
          ELSE /\ output' = <<>>
               /\ result' = IF check_output(env) \in Caught
                            THEN Some(<<None, None, None>>)
                            ELSE None
  /\ UNCHANGED <<i, interface, ssid, mac, ip, table, header, arg>>

\* Lines 37-50: one iteration of the loop; a break returns at line 51.
WifiStep ==
  /\ pc = "wifi_scan"
  /\ i < Len(splitlines(output))
  /\ LET st == WifiScanLine([interface |-> interface, ssid |-> ssid, mac |-> mac],
                            splitlines(output)[i + 1])
     IN  /\ interface' = st.interface
         /\ ssid' = st.ssid
         /\ mac' = st.mac
         /\ i' = i + 1
         /\ IF WifiBreak(st)
            THEN /\ pc' = "wifi_done"
                 /\ result' = Some(<<st.interface, st.ssid, st.mac>>)
            ELSE UNCHANGED <<pc, result>>
  /\ UNCHANGED <<cmd, status, output, ip, table, header, arg>>

\* Lines 37 and 51: the lines are exhausted and the locals are returned.
WifiExhausted ==
  /\ pc = "wifi_scan"
  /\ i = Len(splitlines(output))
  /\ pc' = "wifi_done"
  /\ result' = Some(<<interface, ssid, mac>>)
  /\ UNCHANGED <<cmd, status, output, i, interface, ssid, mac, ip, table,
                 header, arg>>

NextWifi == WifiCall \/ WifiStep \/ WifiExhausted

SpecWifi == Init /\ [][NextWifi]_vars

(***************************************************************************)
(* get_default_route                                                       *)
(***************************************************************************)
\* if len(fields) < 7: continue
MinFields == 7

\* fields = line.rstrip('\r\n').split()
LineFields(line) == split(rstrip_crlf(line))

\* A variant of the length test that also drops lines of exactly 7 fields.
RouteTooShort_inclusive(fields) == Len(fields) <= MinFields

RouteTooShort(fields) == Len(fields) < MinFields

\* fields[0] == 'default' and fields[1] == 'via' and fields[3] == 'dev'
RouteIsDefault(fields) ==
  /\ fields[1] = Chars("default")
  /\ fields[2] = Chars("via")
  /\ fields[4] = Chars("dev")

RouteLines ==
  { Chars("default via 10.21.160.1 dev wlan0 proto static"),
    Chars("default via 10.0.0.1 dev eth0\tproto dhcp metric 100"),
    Chars("default via 10.0.0.2 dev eth1 proto"),
    Chars("10.0.0.0/8 dev eth0 proto kernel scope link"),
    Chars("default dev ppp0 via 10.9.9.9 scope link"),
    Chars("") }

RouteOutputs == {JoinLines(ls) : ls \in SeqsUpTo(RouteLines, MaxLines)}

\* Lines 59-72: the locals are set, "ip route show" is located and run.
RouteCall ==
  /\ pc = "idle"
  /\ arg = None
  /\ \E env \in Envs :
       /\ cmd' = Some(ResolveCmd(env))
       /\ status' = Some(check_output(env))
       /\ pc' = AfterTry(check_output(env), "route_scan", "route_done")
       /\ IF check_output(env) = "ok"
          THEN /\ output' \in RouteOutputs
               /\ result' = None
          ELSE /\ output' = <<>>
               /\ result' = IF check_output(env) \in Caught
                            THEN Some(<<None, None>>)
                            ELSE None
  /\ UNCHANGED <<i, interface, ssid, mac, ip, table, header, arg>>

\* Lines 74-83: one iteration of the loop; a break returns at line 84.
RouteStep ==
  /\ pc = "route_scan"
  /\ i < Len(splitlines(output))
  /\ i' = i + 1
  /\ LET fields == LineFields(splitlines(output)[i + 1])
     IN  IF ~RouteTooShort(fields) /\ RouteIsDefault(fields)
         THEN /\ ip' = Some(fields[3])
              /\ interface' = Some(fields[5])
              /\ pc' = "route_done"
              /\ result' = Some(<<Some(fields[5]), Some(fields[3])>>)
         ELSE UNCHANGED <<ip, interface, pc, result>>
  /\ UNCHANGED <<cmd, status, output, ssid, mac, table, header, arg>>

\* Lines 74 and 84: the lines are exhausted and the locals are returned.
RouteExhausted ==
  /\ pc = "route_scan"
  /\ i = Len(splitlines(output))
  /\ pc' = "route_done"
  /\ result' = Some(<<interface, ip>>)
  /\ UNCHANGED <<cmd, status, output, i, interface, ssid, mac, ip, table,
                 header, arg>>

NextRoute == RouteCall \/ RouteStep \/ RouteExhausted

SpecRoute == Init /\ [][NextRoute]_vars

(***************************************************************************)
(* dig_ip                                                                  *)
(***************************************************************************)
DigOutputs ==
  { Chars(""), Chars("\n"), Chars("93.184.216.34\n"),
    Chars(" 10.0.0.5 \n10.0.0.6\n"), Chars("example.org.\n93.184.216.34\n") }

\* Lines 102-105: the first line, stripped, or None when there is no line.
DigFirstLine(out) ==
  IF splitlines(out) = <<>> THEN None ELSE Some(strip(splitlines(out)[1]))

\* Lines 90-105: dig is located and run and its first line is returned.
DigCall ==
  /\ pc = "idle"
  /\ arg = None
  /\ \E env \in Envs :
       /\ cmd' = Some(ResolveCmd(env))
       /\ status' = Some(check_output(env))
       /\ pc' = AfterTry(check_output(env), "dig_done", "dig_done")
       /\ IF check_output(env) = "ok"
          THEN /\ output' \in DigOutputs
               /\ i' = IF splitlines(output') = <<>> THEN 0 ELSE 1
               /\ ip' = DigFirstLine(output')
               /\ result' = Some(DigFirstLine(output'))
          ELSE /\ output' = <<>>
               /\ i' = 0
               /\ ip' = None
               /\ result' = IF check_output(env) \in Caught
                            THEN Some(None)
                            ELSE None
  /\ UNCHANGED <<interface, ssid, mac, table, header, arg>>

NextCmd == NextWifi \/ NextRoute \/ DigCall

SpecCmd == Init /\ [][NextCmd]_vars

(***************************************************************************)
(* int(): the text of an integer in a base.                                *)
(***************************************************************************)
Digits == Chars("0123456789abcdef")

DigitOf ==
  [c \in {Digits[k] : k \in DOMAIN Digits} |->
     (CHOOSE k \in DOMAIN Digits : Digits[k] = c) - 1]

\* The value of digit c, or 16 when c is no digit.
DigitVal(c) == IF Lower(c) \in DOMAIN DigitOf THEN DigitOf[Lower(c)] ELSE 16

\* The letter that may follow a leading 0 as the prefix of the base.
BasePrefix(base) == IF base = 16 THEN "x" ELSE IF base = 2 THEN "b" ELSE "?"

\* What int(s, base) reads: surrounding whitespace is dropped, then an
\* optional sign, an optional 0x / 0b prefix and one digit or more.  None
\* stands for ValueError, otherwise <<sign, digits>>.
IntText(s, base) ==
  LET t == strip(s)
      signed == t # <<>> /\ t[1] \in {"+", "-"}
      u == IF signed THEN Tail(t) ELSE t
      v == IF Len(u) >= 2 /\ u[1] = "0" /\ Lower(u[2]) = BasePrefix(base)
           THEN From(u, 3) ELSE u
  IN  IF v = <<>> \/ \E k \in DOMAIN v : DigitVal(v[k]) >= base
      THEN None
      ELSE Some(<<IF signed /\ t[1] = "-" THEN -1 ELSE 1, v>>)

RECURSIVE DigitsValue(_, _)
DigitsValue(ds, base) ==
  IF ds = <<>> THEN 0
  ELSE DigitsValue(SubSeq(ds, 1, Len(ds) - 1), base) * base + DigitVal(ds[Len(ds)])

\* int(s, base) for a value that fits a machine word: None for ValueError.
int(s, base) ==
  LET t == IntText(s, base)
  IN  IF t = None THEN None ELSE Some(t[1][1] * DigitsValue(t[1][2], base))

(***************************************************************************)
(* get_arp_table                                                           *)
(***************************************************************************)
\* Iterating a file: the lines, each with its "\n" when it has one.
RECURSIVE FileLinesFrom(_, _)
FileLinesFrom(s, a) ==
  LET k == FirstIn(s, a, {"\n"})
  IN  IF a > Len(s) THEN <<>>
      ELSE IF k = 0 THEN <<From(s, a)>>
      ELSE <<SubSeq(s, a, k)>> \o FileLinesFrom(s, k + 1)

FileLines(s) == FileLinesFrom(s, 1)

\* Lines 132-144: the entry a line yields, or None when the line is skipped:
\* it has not exactly 6 fields (the unpacking raises ValueError) or hwtype or
\* flags is no base-16 integer.
ArpEntry(line) ==
  LET fields == LineFields(line)
  IN  IF Len(fields) # 6 THEN None
      ELSE IF int(fields[2], 16) = None \/ int(fields[3], 16) = None THEN None
      ELSE Some([ip |-> fields[1],
                 hwtype |-> int(fields[2], 16)[1],
                 flags |-> int(fields[3], 16)[1],
                 mac |-> StrUpper(fields[4]),
                 mask |-> fields[5],
                 interface |-> fields[6]])

\* A variant of the insertion that keeps the entry an ip already has.
ArpInsert_keepFirst(t, e) ==
  [k \in DOMAIN t \cup {e.ip} |-> IF k \in DOMAIN t THEN t[k] ELSE e]

\* table[ip] = {...}
ArpInsert(t, e) ==
  [k \in DOMAIN t \cup {e.ip} |-> IF k = e.ip THEN e ELSE t[k]]

ArpLines ==
  { Chars("IP address  HW type  Flags  HW address  Mask  Device"),
    Chars("10.0.0.5 0x1 0x2 aa:bb:cc:dd:ee:ff * eth0"),
    Chars("10.0.0.5  0x1  0x0  00:00:00:00:00:00  *  wlan0"),
    Chars("10.0.0.7 1 0X6 0a:1b:2c:3d:4e:5f * eth0\r"),
    Chars("10.0.0.8 0x1 0xZ aa:bb:cc:dd:ee:ff * eth0"),
    Chars("10.0.0.9 0x1 0x2 aa:bb:cc:dd:ee:ff *"),
    Chars("10.0.0.6 0x1 0x2 aa:bb:cc:dd:ee:ff * eth0 x") }

ArpFiles == {JoinLines(ls) : ls \in SeqsUpTo(ArpLines, MaxLines)}

\* Lines 123-125: the file is opened; a failure to open it is not caught.
ArpOpen ==
  /\ pc = "idle"
  /\ arg = None
  /\ \/ /\ pc' = "arp_scan"
        /\ status' = Some("ok")
        /\ output' \in ArpFiles
        /\ result' = None
     \/ /\ pc' = "raised"
        /\ status' = Some("IOError")
        /\ output' = <<>>
        /\ result' = Some("IOError")
  /\ table' = <<>>
  /\ header' = TRUE
  /\ UNCHANGED <<cmd, i, interface, ssid, mac, ip, arg>>

\* Lines 126-144: one iteration of the loop.
ArpStep ==
  /\ pc = "arp_scan"
  /\ i < Len(FileLines(output))
  /\ i' = i + 1
  /\ header' = FALSE
  /\ table' = IF header \/ ArpEntry(FileLines(output)[i + 1]) = None
              THEN table
              ELSE ArpInsert(table, ArpEntry(FileLines(output)[i + 1])[1])
  /\ UNCHANGED <<pc, cmd, status, output, interface, ssid, mac, ip, arg, result>>

\* Line 145
ArpReturn ==
  /\ pc = "arp_scan"
  /\ i = Len(FileLines(output))
  /\ pc' = "arp_done"
  /\ result' = Some(table)
  /\ UNCHANGED <<cmd, status, output, i, interface, ssid, mac, ip, table,
                 header, arg>>

NextArp == ArpOpen \/ ArpStep \/ ArpReturn

SpecArp == Init /\ [][NextArp]_vars

(***************************************************************************)
(* Python results and integers for the address arithmetic.  A call either  *)
(* returns a value or raises; an int that may exceed 31 bits (a "long") is *)
(* the sequence of its bits, least significant first, with no leading      *)
(* zero: 0 is <<>>, 6 is <<0, 1, 1>>.                                      *)
(***************************************************************************)
Ok(v) == [exc |-> "", val |-> v]

Raise(e) == [exc |-> e, val |-> <<>>]

\* c * n for a one-character string c: empty when n <= 0
Repeat(c, n) == IF n <= 0 THEN <<>> ELSE [k \in 1..n |-> c]

\* str.split(sep) for a one-character separator: empty parts are kept.
RECURSIVE SplitOnFrom(_, _, _)
SplitOnFrom(s, sep, a) ==
  LET k == FirstIn(s, a, {sep})
  IN  IF k = 0 THEN <<From(s, a)>>
      ELSE <<SubSeq(s, a, k - 1)>> \o SplitOnFrom(s, sep, k + 1)

SplitOn(s, sep) == SplitOnFrom(s, sep, 1)

\* sep.join(parts)
RECURSIVE Join(_, _)
Join(parts, sep) ==
  IF parts = <<>> THEN <<>>
  ELSE IF Len(parts) = 1 THEN parts[1]
  ELSE parts[1] \o <<sep>> \o Join(Tail(parts), sep)

\* s[a:b] for 0-based a <= b, clamped to the string as Python clamps a slice.
Slice(s, a, b) == SubSeq(s, a + 1, IF b < Len(s) THEN b ELSE Len(s))

\* The bits of a long without its leading zeros.
LongNorm(b) ==
  LET ones == {k \in DOMAIN b : b[k] = 1}
  IN  IF ones = {} THEN <<>>
      ELSE SubSeq(b, 1, CHOOSE k \in ones : \A m \in ones : m <= k)

LongBit(b, k) == IF k <= Len(b) THEN b[k] ELSE 0

Longest(a, b) == IF Len(a) >= Len(b) THEN Len(a) ELSE Len(b)

\* a & b
LongAnd(a, b) == LongNorm([k \in 1..Longest(a, b) |-> LongBit(a, k) * LongBit(b, k)])

\* a ^ b
LongXor(a, b) ==
  LongNorm([k \in 1..Longest(a, b) |-> (LongBit(a, k) + LongBit(b, k)) % 2])

\* The bits of a + b + carry from bit k on.
RECURSIVE LongAddFrom(_, _, _, _)
LongAddFrom(a, b, k, carry) ==
  IF k > Len(a) /\ k > Len(b) THEN <<carry>>
  ELSE LET sum == LongBit(a, k) + LongBit(b, k) + carry
       IN  <<sum % 2>> \o LongAddFrom(a, b, k + 1, sum \div 2)

\* a + b
LongAdd(a, b) == LongNorm(LongAddFrom(a, b, 1, 0))

\* The long of a natural number.
RECURSIVE LongOf(_)
LongOf(n) == IF n = 0 THEN <<>> ELSE <<n % 2>> \o LongOf(n \div 2)

\* The binary digits of a long, most significant first; "0" for zero.
BinDigits(b) ==
  IF b = <<>> THEN <<"0">>
  ELSE [k \in 1..Len(b) |-> IF b[Len(b) + 1 - k] = 1 THEN "1" ELSE "0"]

\* bin(n) of an int: "0b..." or "-0b..."
bin(n) ==
  IF n < 0 THEN Chars("-0b") \o BinDigits(LongOf(-n))
  ELSE Chars("0b") \o BinDigits(LongOf(n))

\* bin(n) of a long (never negative here)
bin_long(b) == Chars("0b") \o BinDigits(b)

\* int(s, 2) as a long: None for ValueError.  The texts it is given are made
\* of binary digits and the letter b and carry no sign.
int_long(s) ==
  LET t == IntText(s, 2)
  IN  IF t = None THEN None
      ELSE LET ds == t[1][2]
           IN  Some(LongNorm([k \in 1..Len(ds) |-> DigitVal(ds[Len(ds) + 1 - k])]))

\* str(n) of an int
RECURSIVE str(_)
str(n) ==
  IF n < 0 THEN <<"-">> \o str(-n)
  ELSE IF n < 10 THEN <<Digits[n + 1]>>
  ELSE str(n \div 10) \o <<Digits[(n % 10) + 1]>>

(***************************************************************************)
(* mask_ip, ip_to_bin, int_to_ip, bin_to_ip, pad_binary                    *)
(***************************************************************************)
\* The 32 of lines 187 and 216.
AddrBits == 32

\* The 8 of lines 203 and 216.
ByteBits == 8

\* 0b11111111111111111111111111111111
SubnetOnes == [k \in 1..32 |-> 1]

\* A variant of pad_binary that adds the zeros at the end.
pad_binary_right(bin_str, length) ==
  bin_str \o Repeat("0", length - Len(bin_str))

\* Lines 224-225
pad_binary(bin_str, length) == Repeat("0", length - Len(bin_str)) \o bin_str

\* Lines 198-205: the first ValueError of int() is raised.
RECURSIVE ip_to_bin_parts(_)
ip_to_bin_parts(parts) ==
  IF parts = <<>> THEN Ok(<<>>)
  ELSE LET byte_int == int(parts[1], 10)
           rest == ip_to_bin_parts(Tail(parts))
       IN  IF byte_int = None THEN Raise("ValueError")
           ELSE IF rest.exc # "" THEN rest
           ELSE Ok(pad_binary(From(bin(byte_int[1]), 3), ByteBits) \o rest.val)

ip_to_bin(ip_str) == ip_to_bin_parts(SplitOn(ip_str, "."))

\* Lines 214-221.  Every slice is made of binary digits, so int() raises
\* nothing here.
bin_to_ip(ip_bin) ==
  Join([k \in 1..(AddrBits \div ByteBits) |->
          str(int(Slice(ip_bin, (k - 1) * ByteBits, k * ByteBits), 2)[1])], ".")

\* Lines 208-211
int_to_ip(ip_int) == bin_to_ip(pad_binary(From(bin_long(ip_int), 3), AddrBits))

\* A variant of the mask with its one-bits at the low end.
mask_bin_low(prefix_len) ==
  Repeat("0", AddrBits - prefix_len) \o Repeat("1", prefix_len)

\* Line 187
mask_bin(prefix_len) ==
  Repeat("1", prefix_len) \o Repeat("0", AddrBits - prefix_len)

\* Line 191
subnet_int(mask_int) == LongXor(SubnetOnes, mask_int)

\* Lines 185-195, for an int prefix_len
mask_ip_int(ip_str, prefix_len) ==
  LET ip_bin == ip_to_bin(ip_str)
      ip_long == IF ip_bin.exc # "" THEN None ELSE int_long(ip_bin.val)
  IN  IF ip_bin.exc # "" THEN ip_bin
      ELSE IF ip_long = None THEN Raise("ValueError")
      ELSE LET ip_int == ip_long[1]
               mask_int == int_long(mask_bin(prefix_len))[1]
               lower_bound_int == LongAnd(ip_int, mask_int)
               upper_bound_int == LongAdd(lower_bound_int, subnet_int(mask_int))
           IN  Ok(<<int_to_ip(lower_bound_int), int_to_ip(upper_bound_int)>>)

\* Lines 173-195: prefix_len is None or an int; with None the address is
\* "ip/prefix" and unpacking anything but two parts raises ValueError.
mask_ip(ip_str, prefix_len) ==
  IF prefix_len # None THEN mask_ip_int(ip_str, prefix_len[1])
  ELSE LET parts == SplitOn(ip_str, "/")
           prefix == IF Len(parts) # 2 THEN None ELSE int(parts[2], 10)
       IN  IF Len(parts) # 2 THEN Raise("ValueError")
           ELSE IF prefix = None THEN Raise("ValueError")
           ELSE mask_ip_int(parts[1], prefix[1])

\* How far the prefix lengths of the model go beyond 0 and 32.
PrefixSlack == 2

PrefixLens == (0 - PrefixSlack)..(AddrBits + PrefixSlack)

OctetTexts == {Chars("0"), Chars("255"), Chars("172"), Chars("010")}

FourOctets == {Join(os, ".") : os \in [1..4 -> OctetTexts]}

Addresses ==
  FourOctets
    \cup {Chars("104.39.72.0"), Chars("10.0.0.5"), Chars("192.168.1.77")}
    \cup {Chars("300.1.1.1"), Chars("1.2.3.256"), Chars("1.2.3"),
          Chars("1.2.3.4.5"), Chars("1.x.3.4"), Chars("-1.2.3.4"),
          Chars("1..3.4"), Chars(""), Chars("+1. 2.3.4")}

CidrTexts ==
  {a \o <<"/">> \o str(n) : a \in Addresses, n \in PrefixLens}
    \cup {Chars("10.0.0.5"), Chars("10.0.0.5/x"), Chars("10.0.0.5/8/9"),
          Chars("10.0.0.5/")}

IpCalls ==
  {[fn |-> "mask_ip", ip |-> a, prefix_len |-> Some(n)] :
      a \in Addresses, n \in PrefixLens}
    \cup {[fn |-> "mask_ip", ip |-> c, prefix_len |-> None] : c \in CidrTexts}
    \cup {[fn |-> "ip_to_bin", ip |-> a, prefix_len |-> None] : a \in Addresses}

\* The calls the address functions are applied to.
InitIp ==
  /\ pc = "idle"
  /\ cmd = None
  /\ status = None
  /\ output = <<>>
  /\ i = 0
  /\ interface = None
  /\ ssid = None
  /\ mac = None
  /\ ip = None
  /\ table = <<>>
  /\ header = TRUE
  /\ arg \in {Some(c) : c \in IpCalls}
  /\ result = None

\* mask_ip(ip, prefix_len)
MaskIp ==
  /\ pc = "idle"
  /\ arg # None
  /\ arg[1].fn = "mask_ip"
  /\ pc' = "mask_done"
  /\ result' = Some(mask_ip(arg[1].ip, arg[1].prefix_len))
  /\ UNCHANGED <<cmd, status, output, i, interface, ssid, mac, ip, table,
                 header, arg>>

\* ip_to_bin(ip_str)
IpToBin ==
  /\ pc = "idle"
  /\ arg # None
  /\ arg[1].fn = "ip_to_bin"
  /\ pc' = "bin_done"
  /\ result' = Some(ip_to_bin(arg[1].ip))
  /\ UNCHANGED <<cmd, status, output, i, interface, ssid, mac, ip, table,
                 header, arg>>

\* int_to_ip(int(ip_bin, 2)) on the bit string ip_to_bin returned
IntToIp ==
  /\ pc = "bin_done"
  /\ result[1].exc = ""
  /\ int_long(result[1].val) # None
  /\ pc' = "ip_done"
  /\ output' = result[1].val
  /\ result' = Some(Ok(int_to_ip(int_long(result[1].val)[1])))
  /\ UNCHANGED <<cmd, status, i, interface, ssid, mac, ip, table, header, arg>>

NextIp == MaskIp \/ IpToBin \/ IntToIp

SpecIp == InitIp /\ [][NextIp]_vars

\* Every operation of the module.
Next == NextCmd \/ NextArp \/ NextIp

Spec == (Init \/ InitIp) /\ [][Next]_vars

(***************************************************************************)
(* Properties of get_wifi_info.                                            *)
(***************************************************************************)
WifiDoneOk == pc = "wifi_done" /\ status = Some("ok")

\* The lines at or before line k on which the SSID / access-point pattern matches.
SsidLinesTo(ls, k) == {a \in 1..k : SsidMatch(ls[a]) # None}

MacLinesTo(ls, k) == {a \in 1..k : MacMatch(ls[a]) # None}

IfaceLinesTo(ls, k) == {a \in 1..k : IfaceMatch(ls[a]) # None}

Least(S) == CHOOSE x \in S : \A y \in S : x <= y

Greatest(S) == CHOOSE x \in S : \A y \in S : y <= x

\* The lines after which both an SSID and a MAC have been found.
CompleteAt(ls) ==
  {k \in 1..Len(ls) : SsidLinesTo(ls, k) # {} /\ MacLinesTo(ls, k) # {}}

HomeBlock ==
  JoinLines(<< Chars("wlan0  ESSID:\"home\""),
               Chars("  Access Point: AA:BB:CC:DD:EE:FF  ") >>)

HomeResult ==
  Some(<<Some(Chars("wlan0")), Some(Chars("home")),
         Some(Chars("AA:BB:CC:DD:EE:FF"))>>)

\* C5: when get_wifi_info has scanned every line without finding both an SSID
\* and a MAC, it returns (None, None, None), never a partly filled tuple.
C5_AllAbsentWhenIncomplete ==
  (pc = "wifi_done" /\ (ssid = None \/ mac = None))
    => result = Some(<<None, None, None>>)

C10_FirstMatchKept ==
  WifiDoneOk =>
    LET ls == splitlines(output)
    IN  /\ ssid # None => ssid = SsidMatch(ls[Least(SsidLinesTo(ls, i))])
        /\ mac # None => mac = MacMatch(ls[Least(MacLinesTo(ls, i))])


(***************************************************************************)
(* Properties of get_default_route.                                        *)
(***************************************************************************)
\* The lines that have at least 7 fields, the first "default", the second
\* "via" and the fourth "dev".
DefaultRouteLines(ls) ==
  {k \in DOMAIN ls :
     LET f == split(ls[k])
     IN  /\ Len(f) >= 7
         /\ f[1] = Chars("default") /\ f[2] = Chars("via") /\ f[4] = Chars("dev")}

\* C7: get_default_route returns (field[4], field[2]) of the first line with
\* at least 7 fields that reads "default via <ip> dev <interface>", whatever
\* follows it, and (None, None) when no line does; the one-line example gives
\* (wlan0, 10.21.160.1).
C7_FirstDefaultRoute ==
  (pc = "route_done" /\ status = Some("ok")) =>
    LET ls == splitlines(output)
        f == split(ls[Least(DefaultRouteLines(ls))])
    IN  /\ result = IF DefaultRouteLines(ls) = {} THEN Some(<<None, None>>)
                    ELSE Some(<<Some(f[5]), Some(f[3])>>)
        /\ output = Chars("default via 10.21.160.1 dev wlan0 proto static\n")
             => result = Some(<<Some(Chars("wlan0")), Some(Chars("10.21.160.1"))>>)

\* C7 witness: a line of 6 fields was passed over, two later lines match with
\* different gateways, and the first of the two was returned.
C7_Witness ==
  /\ pc = "route_done"
  /\ status = Some("ok")
  /\ LET ls == splitlines(output)
     IN  /\ Len(ls) = 3
         /\ Len(split(ls[1])) = 6
         /\ DefaultRouteLines(ls) = {2, 3}
         /\ split(ls[2])[3] # split(ls[3])[3]
         /\ result = Some(<<Some(split(ls[2])[5]), Some(split(ls[2])[3])>>)

(***************************************************************************)
(* Properties of get_arp_table.                                            *)
(***************************************************************************)
\* The lines after the first that split into exactly 6 fields whose second
\* and third are base-16 integers.
ArpValidLines(ls) ==
  {k \in 2..Len(ls) :
     LET f == split(ls[k])
     IN  Len(f) = 6 /\ int(f[2], 16) # None /\ int(f[3], 16) # None}

\* The entry line k stands for.
ArpEntryOf(ls, k) ==
  LET f == split(ls[k])
  IN  [ip |-> f[1], hwtype |-> int(f[2], 16)[1], flags |-> int(f[3], 16)[1],
       mac |-> StrUpper(f[4]), mask |-> f[5], interface |-> f[6]]

\* C8: the table get_arp_table returns has one key per ip of a valid line
\* after the first line, the entry of an ip is that of the last valid line
\* with that ip, and no other line contributes; the header-plus-one-line
\* example gives the single entry 10.0.0.5 / 1 / 2 / AA:BB:CC:DD:EE:FF.
C8_ArpTableExact ==
  pc = "arp_done" =>
    LET ls == FileLines(output)
        valid == ArpValidLines(ls)
        t == result[1]
    IN  /\ DOMAIN t = {split(ls[k])[1] : k \in valid}
        /\ \A k \in valid :
             (\A m \in valid : split(ls[m])[1] = split(ls[k])[1] => m <= k)
               => t[split(ls[k])[1]] = ArpEntryOf(ls, k)
        /\ output = Chars("IP address  HW type  Flags  HW address  Mask  Device\n")
                      \o Chars("10.0.0.5 0x1 0x2 aa:bb:cc:dd:ee:ff * eth0\n")
             => /\ DOMAIN t = {Chars("10.0.0.5")}
                /\ t[Chars("10.0.0.5")].hwtype = 1
                /\ t[Chars("10.0.0.5")].flags = 2
                /\ t[Chars("10.0.0.5")].mac = Chars("AA:BB:CC:DD:EE:FF")

\* C8 witness: a valid line in first place was skipped and two later valid
\* lines carry the same ip with different entries.
C8_Witness ==
  /\ pc = "arp_done"
  /\ LET ls == FileLines(output)
     IN  /\ Len(ls) = 3
         /\ ArpEntry(ls[1]) # None
         /\ ArpValidLines(ls) = {2, 3}
         /\ split(ls[2])[1] = split(ls[3])[1]
         /\ ArpEntryOf(ls, 2) # ArpEntryOf(ls, 3)
         /\ Cardinality(DOMAIN result[1]) = 1

(***************************************************************************)
(* Properties of the command wrappers.                                     *)
(***************************************************************************)
\* C9: when the command cannot be run (check_output raises OSError or
\* CalledProcessError), get_wifi_info returns (None, None, None),
\* get_default_route returns (None, None) and dig_ip returns None; nothing
\* is raised to the caller and no line of output is parsed.
C9_FailureGivesSentinel ==
  (status # None /\ status[1] # "ok") =>
    /\ pc \in {"wifi_done", "route_done", "dig_done"}
    /\ pc = "wifi_done" => result = Some(<<None, None, None>>)
    /\ pc = "route_done" => result = Some(<<None, None>>)
    /\ pc = "dig_done" => result = Some(None)
    /\ i = 0
    /\ interface = None /\ ssid = None /\ mac = None /\ ip = None

\* C9 witness: iwconfig was not on the search path, the fallback path does
\* not exist either, and get_wifi_info has returned.
C9_Witness ==
  /\ pc = "wifi_done"
  /\ cmd = Some("absolute")
  /\ status = Some("OSError")

(***************************************************************************)
(* Properties of the address arithmetic.                                   *)
(***************************************************************************)
DecimalDigits == {"0", "1", "2", "3", "4", "5", "6", "7", "8", "9"}

\* s is four dot-separated parts, each a run of decimal digits with a value
\* in [0,255].
ValidAddr(s) ==
  LET parts == SplitOn(s, ".")
  IN  /\ Len(parts) = 4
      /\ \A k \in 1..4 :
           /\ parts[k] # <<>>
           /\ \A m \in DOMAIN parts[k] : parts[k][m] \in DecimalDigits
           /\ int(parts[k], 10)[1] \in 0..255

\* s is four dot-separated parts, each of which int() reads as a base-10
\* integer in [0,255].
ParsesInRange(s) ==
  LET parts == SplitOn(s, ".")
  IN  /\ Len(parts) = 4
      /\ \A k \in 1..4 :
           int(parts[k], 10) # None /\ int(parts[k], 10)[1] \in 0..255

\* The numerals of 0..255 as str() writes them.
OctetNumerals == {str(n) : n \in 0..255}

\* s is four dot-separated numerals of [0,255] with no leading zeros.
CanonicalAddr(s) ==
  LET parts == SplitOn(s, ".")
  IN  Len(parts) = 4 /\ \A k \in 1..4 : parts[k] \in OctetNumerals

\* The address text and the prefix length of a mask_ip call; the prefix
\* length is None when the call gives none that int() can read.
CallAddr == IF arg[1].prefix_len # None THEN arg[1].ip
            ELSE SplitOn(arg[1].ip, "/")[1]

CallPrefix ==
  IF arg[1].prefix_len # None THEN arg[1].prefix_len
  ELSE IF Len(SplitOn(arg[1].ip, "/")) # 2 THEN None
  ELSE int(SplitOn(arg[1].ip, "/")[2], 10)

RECURSIVE Pow2(_)
Pow2(n) == IF n = 0 THEN 1 ELSE 2 * Pow2(n - 1)

\* The number of host (zero) bits the mask of prefix n has in octet j.
HostBits(j, n) ==
  LET netbits == n - 8 * (j - 1)
  IN  IF netbits <= 0 THEN 8 ELSE IF netbits >= 8 THEN 0 ELSE 8 - netbits

\* Octet j of (addr AND mask) and of ((addr AND mask) OR NOT mask).
LowerOctet(a, j, n) == a - (a % Pow2(HostBits(j, n)))

UpperOctet(a, j, n) == LowerOctet(a, j, n) + Pow2(HostBits(j, n)) - 1

\* C1: for a valid address and a prefix length n in [0,32], mask_ip returns
\* lower = addr AND mask and upper = lower OR NOT mask, the mask being n
\* one-bits followed by 32-n zero-bits; n = 32 gives lower = upper = addr and
\* n = 0 gives 0.0.0.0 and 255.255.255.255.
C1_MaskIpRange ==
  (pc = "mask_done" /\ ParsesInRange(CallAddr) /\ CallPrefix # None
     /\ CallPrefix[1] \in 0..32) =>
    LET n == CallPrefix[1]
        a == [j \in 1..4 |-> int(SplitOn(CallAddr, ".")[j], 10)[1]]
        lower == Join([j \in 1..4 |-> str(LowerOctet(a[j], j, n))], ".")
        upper == Join([j \in 1..4 |-> str(UpperOctet(a[j], j, n))], ".")
        addr == Join([j \in 1..4 |-> str(a[j])], ".")
    IN  /\ result = Some(Ok(<<lower, upper>>))
        /\ n = 32 => result = Some(Ok(<<addr, addr>>))
        /\ n = 0 => result = Some(Ok(<<Chars("0.0.0.0"), Chars("255.255.255.255")>>))

\* C1 witness: mask_ip('104.39.72.0/22') has returned 104.39.72.0 and
\* 104.39.75.255.
C1_Witness ==
  /\ pc = "mask_done"
  /\ arg[1].ip = Chars("104.39.72.0/22")
  /\ result = Some(Ok(<<Chars("104.39.72.0"), Chars("104.39.75.255")>>))

\* C2 as amended: for every address text whose four octets are numerals of
\* [0,255] without leading zeros, ip_to_bin followed by int_to_ip gives the
\* text back.
C2_RoundTripCanonical ==
  (pc = "ip_done" /\ CanonicalAddr(arg[1].ip)) => result = Some(Ok(arg[1].ip))

\* C2 witness: 192.168.1.77 has gone through ip_to_bin and int_to_ip.
C2_Witness ==
  /\ pc = "ip_done"
  /\ arg[1].ip = Chars("192.168.1.77")
  /\ output = Chars("11000000101010000000000101001101")
  /\ result = Some(Ok(Chars("192.168.1.77")))

\* C2 as stated: for every valid dotted-decimal text (four decimal octets,
\* each in [0,255]), ip_to_bin followed by int_to_ip gives the text back.
C2_RoundTripValid ==
  (pc = "ip_done" /\ ValidAddr(arg[1].ip)) => result = Some(Ok(arg[1].ip))

\* C3: mask_ip called with a prefix length outside [0,32] (and an address
\* that is itself valid) signals an error and returns no range.
C3_PrefixOutOfRangeFails ==
  (pc = "mask_done" /\ ParsesInRange(CallAddr) /\ CallPrefix # None
     /\ CallPrefix[1] \notin 0..32)
    => result[1].exc # ""

\* C4: ip_to_bin fails whenever the text does not split on "." into exactly
\* 4 parts that are base-10 integers in [0,255]; no bit string is produced.
C4_MalformedAddressFails ==
  (pc = "bin_done" /\ ~ParsesInRange(arg[1].ip)) => result[1].exc # ""

=============================================================================
